---------------------------- MODULE Spec2Model ----------------------------
(***************************************************************************)
(* A model of the Python documentation RAG system: the FAISS-backed        *)
(* VectorStore (src/src/vector_store.py) as a state machine, and the       *)
(* SemanticChunker (src/src/chunker.py, src/src/utils.py) as pure          *)
(* functions applied to bounded inputs.                                    *)
(***************************************************************************)
EXTENDS Integers, Sequences, FiniteSets, TLC

VARIABLES
    vs,          \* the VectorStore object in use: [embedding_dim, index, chunks]
    disk,        \* the store directory: [faiss_index, chunks_metadata], each <<>> or <<content>>
    ret,         \* the last call on the store and its outcome
    added,       \* history: the (chunk, embedding row) pairs handed to vs by successful add_chunks calls
    saved,       \* history: <<>> or <<[vs, added] as they were at the last save>>
    chunker,     \* the SemanticChunker object: [target_chunk_size, max_chunk_size, overlap_size]
    arg,         \* the text handed to the chunker method under way
    result,      \* what the method returned
    pc           \* "idle", "call" (the method is about to run) or "return"

storeVars == <<vs, disk, ret, added, saved>>
chunkVars == <<chunker, arg, result, pc>>
vars == <<storeVars, chunkVars>>

---------------------------------------------------------------------------
(* Bounds of the model *)

MaxStore == 3      \* stored entries
MaxK     == 4      \* k of a search
MaxPieces == 4     \* word runs of a section body handed to the small chunker
MaxScenarioPieces == 5   \* word runs of a 1300-token section body handed to the default chunker
MaxLines == 4      \* lines of a document handed to the section splitter
MaxDocLines == 5   \* lines of a document handed to chunk_document

(* Inputs *)

\* embedding dimensions a store is built with, and the column counts of the matrices handed to it
Dims == {2}
Cols == {1, 2}
\* float64 rows handed to the store; odd components are not float32-representable
RawRows(d) == IF d = 2 THEN {<<2, 0>>, <<1, 3>>} ELSE {<<2>>}
Queries == {<<2, 0>>, <<1, 1>>}
\* chunks, or embedding rows, per add_chunks call
BatchSizes == {0, 1, 2}
\* the backend's order among equal distances is implementation-defined: by ascending or descending label
TieOrders == {"low", "high"}

ChunkPool ==
    { [text |-> "alpha", metadata |-> [source |-> "a.txt", section_title |-> "Introduction",
                                        token_count |-> "1", chunk_index |-> "0"]],
      [text |-> "beta",  metadata |-> [source |-> "b.txt", section_title |-> "Lists",
                                        token_count |-> "1", chunk_index |-> "1"]] }

Batches(S) == UNION { [1..m -> S] : m \in BatchSizes }

---------------------------------------------------------------------------
(* numpy *)

\* ndarray.astype('float32') of one component: the nearest value below on the float32 grid
Float32(x) == 2 * (x \div 2)

\* ndarray.astype('float32') of a matrix [shape |-> <<n, d>>, data |-> rows]
astype_float32(a) ==
    [shape |-> a.shape,
     data  |-> [i \in DOMAIN a.data |-> [j \in DOMAIN a.data[i] |-> Float32(a.data[i][j])]]]

\* a 1-D query reshaped to a batch of one: reshape(1, -1)
reshape_1(q) == [shape |-> <<1, Len(q)>>, data |-> <<q>>]

---------------------------------------------------------------------------
(* faiss.IndexFlatL2 *)

IndexFlatL2(d) == [d |-> d, xb |-> <<>>]

ntotal(ix) == Len(ix.xb)

\* index.add(x): the rows of x are appended to the flat storage; x must have ix.d columns
IndexAddFront(ix, x) == [ix EXCEPT !.xb = x.data \o @]

IndexAdd(ix, x) == [ix EXCEPT !.xb = @ \o x.data]

\* squared Euclidean distance of two rows, summed over columns j..1
RECURSIVE SumSqr(_, _, _)
SumSqr(a, b, j) == IF j = 0 THEN 0 ELSE (a[j] - b[j]) * (a[j] - b[j]) + SumSqr(a, b, j - 1)

L2Sqr(a, b) == SumSqr(a, b, Len(a))

\* the distance reported with a "not found" label: larger than any real distance
FLT_MAX == 1000000

\* the order of the backend's result list: nearer first, equal distances by label
HitBeforeFarthest(a, b, tie) ==
    \/ a.dist > b.dist
    \/ a.dist = b.dist /\ (IF tie = "low" THEN a.idx < b.idx ELSE a.idx > b.idx)

HitBefore(a, b, tie) ==
    \/ a.dist < b.dist
    \/ a.dist = b.dist /\ (IF tie = "low" THEN a.idx < b.idx ELSE a.idx > b.idx)

RECURSIVE InsertHit(_, _, _)
InsertHit(s, h, tie) ==
    IF s = <<>> THEN <<h>>
    ELSE IF HitBefore(h, Head(s), tie) THEN <<h>> \o s
    ELSE <<Head(s)>> \o InsertHit(Tail(s), h, tie)

\* the exhaustive scan: every stored vector 1..i with its distance to q, nearest first (0-based labels)
RECURSIVE Scan(_, _, _, _)
Scan(ix, q, i, tie) ==
    IF i = 0 THEN <<>>
    ELSE InsertHit(Scan(ix, q, i - 1, tie), [dist |-> L2Sqr(ix.xb[i], q), idx |-> i - 1], tie)

\* index.search(x, k) for a batch of one: k (distance, label) pairs, nearest first,
\* padded with label -1 when fewer than k vectors are stored
IndexSearch(ix, x, k, tie) ==
    LET all == Scan(ix, x.data[1], ntotal(ix), tie)
        m   == IF k < Len(all) THEN k ELSE Len(all)
    IN  SubSeq(all, 1, m) \o [r \in 1..(k - m) |-> [dist |-> FLT_MAX, idx |-> -1]]

---------------------------------------------------------------------------
(* VectorStore *)

\* VectorStore.__init__
VectorStore(embedding_dim) ==
    [embedding_dim |-> embedding_dim, index |-> IndexFlatL2(embedding_dim), chunks |-> <<>>]

\* VectorStore.add_chunks: the store after the call and the exception raised, if any
add_chunks_IndexFirst(self, cs, embeddings) ==
    LET e32 == astype_float32(embeddings) IN
    IF e32.shape[2] # self.index.d
    THEN [self |-> self, raised |-> "AssertionError"]
    ELSE IF embeddings.shape[1] # Len(cs)
    THEN [self |-> [self EXCEPT !.index = IndexAdd(self.index, e32)], raised |-> "ValueError"]
    ELSE [self |-> [self EXCEPT !.index = IndexAdd(self.index, e32), !.chunks = @ \o cs],
          raised |-> "none"]

add_chunks_ChunksFirst(self, cs, embeddings) ==
    IF embeddings.shape[1] # Len(cs)
    THEN [self |-> [self EXCEPT !.chunks = @ \o cs], raised |-> "ValueError"]
    ELSE LET e32 == astype_float32(embeddings) IN
         IF e32.shape[2] # self.index.d
         THEN [self |-> self, raised |-> "AssertionError"]
         ELSE [self |-> [self EXCEPT !.index = IndexAdd(self.index, e32), !.chunks = @ \o cs],
               raised |-> "none"]

add_chunks(self, cs, embeddings) ==
    IF embeddings.shape[1] # Len(cs)
    THEN [self |-> self, raised |-> "ValueError"]
    ELSE LET e32 == astype_float32(embeddings) IN
         IF e32.shape[2] # self.index.d
         THEN [self |-> self, raised |-> "AssertionError"]    \* faiss rejects the matrix, nothing added
         ELSE [self |-> [self EXCEPT !.index = IndexAdd(self.index, e32), !.chunks = @ \o cs],
               raised |-> "none"]

\* Python list indexing s[i] with a 0-based, possibly negative, index
PyInRange(s, i) == 0 - Len(s) <= i /\ i < Len(s)

PyGet(s, i) == IF i < 0 THEN s[Len(s) + i + 1] ELSE s[i + 1]

\* the (chunk, distance) pairs of a list of (distance, label) pairs
Pairs(self, hits) ==
    IF \E r \in DOMAIN hits : ~PyInRange(self.chunks, hits[r].idx)
    THEN [raised |-> "IndexError", results |-> <<>>]
    ELSE [raised  |-> "none",
          results |-> [r \in DOMAIN hits |-> [chunk |-> PyGet(self.chunks, hits[r].idx),
                                              distance |-> hits[r].dist]]]

\* the result loop of VectorStore.search over the backend's (distance, label) pairs
CollectNoFilter(self, hits) == Pairs(self, hits)

Collect(self, hits) == Pairs(self, SelectSeq(hits, LAMBDA h : h.idx # -1))

\* VectorStore.search
search(self, query_embedding, k, tie) ==
    LET q32 == astype_float32(reshape_1(query_embedding)) IN
    IF q32.shape[2] # self.index.d
    THEN [raised |-> "AssertionError", results |-> <<>>]
    ELSE Collect(self, IndexSearch(self.index, q32, k, tie))

---------------------------------------------------------------------------
(* Persistence *)

\* faiss.write_index: dimension, vector count and the flat vector array
write_index(ix) ==
    LET RECURSIVE Flat(_)
        Flat(rows) == IF rows = <<>> THEN <<>> ELSE Head(rows) \o Flat(Tail(rows))
    IN  [d |-> ix.d, ntotal |-> ntotal(ix), codes |-> Flat(ix.xb)]

\* faiss.read_index
read_index(f) ==
    [d |-> f.d, xb |-> [i \in 1..f.ntotal |-> [j \in 1..f.d |-> f.codes[(i - 1) * f.d + j]]]]

\* the chunks_data list written by json.dump
chunks_data(cs) == [i \in DOMAIN cs |-> [text |-> cs[i].text, metadata |-> cs[i].metadata]]

\* VectorStore.save: the directory after the call
save(self, dir) ==
    [faiss_index |-> <<write_index(self.index)>>, chunks_metadata |-> <<chunks_data(self.chunks)>>]

\* VectorStore.save cut short after faiss.write_index: the metadata file is not reached
save_index_only(self, dir) == [dir EXCEPT !.faiss_index = <<write_index(self.index)>>]

\* the chunk list VectorStore.load rebuilds from the parsed JSON
ReconstructReversed(data) ==
    [i \in DOMAIN data |-> [text |-> data[Len(data) + 1 - i].text,
                            metadata |-> data[Len(data) + 1 - i].metadata]]

Reconstruct(data) == [i \in DOMAIN data |-> [text |-> data[i].text, metadata |-> data[i].metadata]]

\* VectorStore.load
load_Partial(dir) ==
    IF dir.faiss_index = <<>> THEN [raised |-> "FileNotFoundError", store |-> <<>>]
    ELSE LET ix == read_index(dir.faiss_index[1]) IN
         IF dir.chunks_metadata = <<>>
         THEN [raised |-> "FileNotFoundError",
               store  |-> <<[embedding_dim |-> ix.d, index |-> ix, chunks |-> <<>>]>>]
         ELSE [raised |-> "none",
               store  |-> <<[embedding_dim |-> ix.d, index |-> ix,
                             chunks |-> Reconstruct(dir.chunks_metadata[1])]>>]

load(dir) ==
    IF dir.faiss_index = <<>> THEN [raised |-> "FileNotFoundError", store |-> <<>>]
    ELSE IF dir.chunks_metadata = <<>> THEN [raised |-> "FileNotFoundError", store |-> <<>>]
    ELSE LET ix == read_index(dir.faiss_index[1]) IN
         [raised |-> "none",
          store  |-> <<[embedding_dim |-> ix.d, index |-> ix,
                        chunks |-> Reconstruct(dir.chunks_metadata[1])]>>]

---------------------------------------------------------------------------
(* Text: a Python str is a sequence of characters. A character is [ch, n]: whitespace " " and
   "\n", punctuation ".", "=", "-", "*", or a run of word text named ch that the tokenizer
   encodes as n tokens and that holds no whitespace and no punctuation. *)

Ch(c) == [ch |-> c, n |-> 0]

Word(c, n) == [ch |-> c, n |-> n]

Whitespace == {" ", "\n"}

Punctuation == {".", "=", "-", "*"}

IsWord(c) == c.ch \notin Whitespace \cup Punctuation

Str(cs) == [i \in DOMAIN cs |-> Ch(cs[i])]

\* str.strip()
RECURSIVE lstrip(_)
lstrip(s) == IF s # <<>> /\ Head(s).ch \in Whitespace THEN lstrip(Tail(s)) ELSE s

RECURSIVE rstrip(_)
rstrip(s) ==
    IF s # <<>> /\ s[Len(s)].ch \in Whitespace THEN rstrip(SubSeq(s, 1, Len(s) - 1)) ELSE s

strip(s) == rstrip(lstrip(s))

StartsWith(s, prefix) == Len(prefix) <= Len(s) /\ SubSeq(s, 1, Len(prefix)) = prefix

\* str.split(sep): the pieces between the non-overlapping occurrences of sep, left to right
RECURSIVE SplitFrom(_, _, _)
SplitFrom(s, sep, cur) ==
    IF s = <<>> THEN <<cur>>
    ELSE IF StartsWith(s, sep)
    THEN <<cur>> \o SplitFrom(SubSeq(s, Len(sep) + 1, Len(s)), sep, <<>>)
    ELSE SplitFrom(Tail(s), sep, Append(cur, Head(s)))

split(s, sep) == SplitFrom(s, sep, <<>>)

\* sep.join(parts)
RECURSIVE join(_, _)
join(sep, parts) ==
    IF parts = <<>> THEN <<>>
    ELSE IF Len(parts) = 1 THEN parts[1]
    ELSE parts[1] \o sep \o join(sep, Tail(parts))

\* The tokens character i of a text contributes under the cl100k_base encoding: a word run its n
\* tokens, a punctuation character one, a space none (it joins the word after it), and a run of
\* newlines one unless it follows punctuation (which it then joins).
TokensAt(text, i) ==
    IF IsWord(text[i]) THEN text[i].n
    ELSE IF text[i].ch = " " THEN 0
    ELSE IF text[i].ch = "\n"
    THEN (IF i > 1 /\ text[i - 1].ch \in {"\n"} \cup Punctuation THEN 0 ELSE 1)
    ELSE 1

RECURSIVE TokensUpTo(_, _)
TokensUpTo(text, i) == IF i = 0 THEN 0 ELSE TokensAt(text, i) + TokensUpTo(text, i - 1)

\* utils.count_tokens
count_tokens(text) == TokensUpTo(text, Len(text))

---------------------------------------------------------------------------
(* SemanticChunker *)

target_chunk_size == 512
max_chunk_size == 1024
overlap_size == 128

\* SemanticChunker.__init__
SemanticChunker(target, max, overlap) ==
    [target_chunk_size |-> target, max_chunk_size |-> max, overlap_size |-> overlap]

\* {**doc_metadata, 'section_title': ..., 'token_count': ..., 'chunk_index': ...}
ChunkMetadata(doc_metadata, section_title, token_count, chunk_index) ==
    LET own == [section_title |-> section_title, token_count |-> ToString(token_count),
                chunk_index |-> ToString(chunk_index)]
    IN  [key \in DOMAIN doc_metadata \cup DOMAIN own |->
            IF key \in DOMAIN own THEN own[key] ELSE doc_metadata[key]]

\* SemanticChunker._get_overlap_text
_get_overlap_text_TwoKept(self, text, overlap_tokens) ==
    LET sentences == split(text, Str(<<".", " ">>)) IN
    IF Len(sentences) <= 1 THEN <<>>
    ELSE join(Str(<<".", " ">>), SubSeq(sentences, Len(sentences) - 1, Len(sentences)))

_get_overlap_text(self, text, overlap_tokens) ==
    LET sentences == split(text, Str(<<".", " ">>)) IN
    IF Len(sentences) <= 2 THEN <<>>
    ELSE join(Str(<<".", " ">>), SubSeq(sentences, Len(sentences) - 1, Len(sentences)))

\* the test that sends a section down the single-chunk path
FitsTargetStrict(self, token_count) == token_count < self.target_chunk_size

FitsTarget(self, token_count) == token_count <= self.target_chunk_size

\* the paragraphs of a section body
Paragraphs(section_content) ==
    LET parts == split(section_content, Str(<<"\n", "\n">>))
        stripped == [i \in DOMAIN parts |-> strip(parts[i])]
    IN  SelectSeq(stripped, LAMBDA para : para # <<>>)

\* the test that closes the current chunk before a paragraph;
\* st is [chunks, current_chunk_text, current_chunk_tokens, chunk_index]
OverflowsTarget(self, st, para_tokens) ==
    st.current_chunk_tokens + para_tokens > self.target_chunk_size /\ st.current_chunk_text # <<>>

Overflows(self, st, para_tokens) ==
    st.current_chunk_tokens + para_tokens > self.max_chunk_size /\ st.current_chunk_text # <<>>

\* one pass of the paragraph loop
LoopBody_SameIndex(self, st, para, section_title, doc_metadata) ==
    LET para_tokens == count_tokens(para) IN
    IF Overflows(self, st, para_tokens)
    THEN LET overlap_text == _get_overlap_text(self, st.current_chunk_text, self.overlap_size)
             text == overlap_text \o Str(<<"\n", "\n">>) \o para
         IN  [chunks |-> Append(st.chunks,
                           [text |-> strip(st.current_chunk_text),
                            metadata |-> ChunkMetadata(doc_metadata, section_title,
                                                       st.current_chunk_tokens, st.chunk_index)]),
              current_chunk_text |-> text,
              current_chunk_tokens |-> count_tokens(text),
              chunk_index |-> st.chunk_index]
    ELSE [st EXCEPT !.current_chunk_text = IF @ # <<>> THEN @ \o Str(<<"\n", "\n">>) \o para ELSE para,
                    !.current_chunk_tokens = @ + para_tokens]

LoopBody(self, st, para, section_title, doc_metadata) ==
    LET para_tokens == count_tokens(para) IN
    IF Overflows(self, st, para_tokens)
    THEN LET overlap_text == _get_overlap_text(self, st.current_chunk_text, self.overlap_size)
             text == overlap_text \o Str(<<"\n", "\n">>) \o para
         IN  [chunks |-> Append(st.chunks,
                           [text |-> strip(st.current_chunk_text),
                            metadata |-> ChunkMetadata(doc_metadata, section_title,
                                                       st.current_chunk_tokens, st.chunk_index)]),
              current_chunk_text |-> text,
              current_chunk_tokens |-> count_tokens(text),
              chunk_index |-> st.chunk_index + 1]
    ELSE [st EXCEPT !.current_chunk_text = IF @ # <<>> THEN @ \o Str(<<"\n", "\n">>) \o para ELSE para,
                    !.current_chunk_tokens = @ + para_tokens]

RECURSIVE Loop(_, _, _, _, _)
Loop(self, st, paragraphs, section_title, doc_metadata) ==
    IF paragraphs = <<>> THEN st
    ELSE Loop(self, LoopBody(self, st, Head(paragraphs), section_title, doc_metadata),
              Tail(paragraphs), section_title, doc_metadata)

\* SemanticChunker._chunk_section
_chunk_section_NoFlush(self, section_content, section_title, doc_metadata) ==
    LET token_count == count_tokens(section_content) IN
    IF FitsTarget(self, token_count)
    THEN <<[text |-> section_content,
            metadata |-> ChunkMetadata(doc_metadata, section_title, token_count, 0)]>>
    ELSE Loop(self, [chunks |-> <<>>, current_chunk_text |-> <<>>,
                     current_chunk_tokens |-> 0, chunk_index |-> 0],
              Paragraphs(section_content), section_title, doc_metadata).chunks

_chunk_section(self, section_content, section_title, doc_metadata) ==
    LET token_count == count_tokens(section_content) IN
    IF FitsTarget(self, token_count)
    THEN <<[text |-> section_content,
            metadata |-> ChunkMetadata(doc_metadata, section_title, token_count, 0)]>>
    ELSE LET st == Loop(self, [chunks |-> <<>>, current_chunk_text |-> <<>>,
                               current_chunk_tokens |-> 0, chunk_index |-> 0],
                        Paragraphs(section_content), section_title, doc_metadata)
         IN  IF st.current_chunk_text # <<>>
             THEN Append(st.chunks,
                         [text |-> strip(st.current_chunk_text),
                          metadata |-> ChunkMetadata(doc_metadata, section_title,
                                                     st.current_chunk_tokens, st.chunk_index)])
             ELSE st.chunks

---------------------------------------------------------------------------
(* Section splitter *)

\* utils.detect_section_header: [is_header, level]
detect_section_header(line) ==
    LET stripped == strip(line)
        AllOf(c) == \A i \in DOMAIN stripped : stripped[i].ch = c
    IN  IF Len(stripped) >= 3 /\ AllOf("*") THEN [is_header |-> TRUE, level |-> 1]
        ELSE IF Len(stripped) >= 3 /\ AllOf("=") THEN [is_header |-> TRUE, level |-> 2]
        ELSE IF Len(stripped) >= 3 /\ AllOf("-") THEN [is_header |-> TRUE, level |-> 3]
        ELSE [is_header |-> FALSE, level |-> 0]

\* utils.extract_section_title; header_index counts from 0 as in the source
extract_section_title(lines, header_index) ==
    IF header_index > 0 THEN strip(lines[header_index]) ELSE <<>>

Introduction == <<Word("Introduction", 1)>>

\* the (title, content) pair appended to sections
SectionOf(title, section_lines) == <<title, strip(join(Str(<<"\n">>), section_lines))>>

\* one pass of the while loop at 0-based index i;
\* st is [sections, current_section_title, current_section_lines]
SplitStep_HeaderAtZero(st, lines, i) ==
    IF detect_section_header(lines[i + 1]).is_header
    THEN [sections |-> IF st.current_section_lines # <<>>
                       THEN Append(st.sections,
                                   SectionOf(st.current_section_title, st.current_section_lines))
                       ELSE st.sections,
          current_section_title |-> extract_section_title(lines, i),
          current_section_lines |-> <<>>]
    ELSE [st EXCEPT !.current_section_lines = Append(@, lines[i + 1])]

SplitStep(st, lines, i) ==
    IF detect_section_header(lines[i + 1]).is_header /\ i > 0
    THEN [sections |-> IF st.current_section_lines # <<>>
                       THEN Append(st.sections,
                                   SectionOf(st.current_section_title, st.current_section_lines))
                       ELSE st.sections,
          current_section_title |-> extract_section_title(lines, i),
          current_section_lines |-> <<>>]
    ELSE [st EXCEPT !.current_section_lines = Append(@, lines[i + 1])]

RECURSIVE SplitLoop(_, _, _)
SplitLoop(st, lines, i) ==
    IF i < Len(lines) THEN SplitLoop(SplitStep(st, lines, i), lines, i + 1) ELSE st

\* SemanticChunker._split_into_sections
_split_into_sections_NoFlush(self, lines) ==
    SplitLoop([sections |-> <<>>, current_section_title |-> Introduction,
               current_section_lines |-> <<>>], lines, 0).sections

_split_into_sections(self, lines) ==
    LET st == SplitLoop([sections |-> <<>>, current_section_title |-> Introduction,
                         current_section_lines |-> <<>>], lines, 0)
    IN  IF st.current_section_lines # <<>>
        THEN Append(st.sections, SectionOf(st.current_section_title, st.current_section_lines))
        ELSE st.sections

\* the loop of chunk_document over the (title, content) sections
RECURSIVE SectionChunks(_, _, _)
SectionChunks(self, sections, doc_metadata) ==
    IF sections = <<>> THEN <<>>
    ELSE _chunk_section(self, Head(sections)[2], Head(sections)[1], doc_metadata)
         \o SectionChunks(self, Tail(sections), doc_metadata)

\* SemanticChunker.chunk_document; a document is [content, metadata]
chunk_document(self, document) ==
    LET lines == split(document.content, Str(<<"\n">>))
        sections == _split_into_sections(self, lines)
    IN  SectionChunks(self, sections, document.metadata)

---------------------------------------------------------------------------
(* The state machine of the vector store *)

Matrices(d) == { [shape |-> <<Len(rows), d>>, data |-> rows] : rows \in Batches(RawRows(d)) }

Embeddings == UNION { Matrices(d) : d \in Cols }

InitStore ==
    /\ \E d \in Dims : vs = VectorStore(d)
    /\ disk = [faiss_index |-> <<>>, chunks_metadata |-> <<>>]
    /\ ret = [op |-> "init"]
    /\ added = <<>>
    /\ saved = <<>>

InitChunker ==
    /\ chunker = SemanticChunker(target_chunk_size, max_chunk_size, overlap_size)
    /\ arg = <<>>
    /\ result = <<>>
    /\ pc = "idle"

Init == InitStore /\ InitChunker

AddChunks ==
    \E cs \in Batches(ChunkPool), e \in Embeddings :
        /\ Len(vs.chunks) + Len(cs) <= MaxStore
        /\ ntotal(vs.index) + e.shape[1] <= MaxStore
        /\ LET r == add_chunks(vs, cs, e) IN
           /\ vs' = r.self
           /\ ret' = [op |-> "add_chunks", mismatch |-> (e.shape[1] # Len(cs)), raised |-> r.raised]
           /\ added' = IF r.raised = "none"
                       THEN added \o [i \in 1..Len(cs) |-> <<cs[i], e.data[i]>>]
                       ELSE added
        /\ UNCHANGED <<disk, saved, chunkVars>>

Search ==
    \E q \in Queries, k \in 1..MaxK, tie \in TieOrders :
        LET r == search(vs, q, k, tie) IN
        /\ ret' = [op |-> "search", q |-> q, k |-> k, raised |-> r.raised, results |-> r.results]
        /\ UNCHANGED <<vs, disk, added, saved, chunkVars>>

Save ==
    /\ disk' = save(vs, disk)
    /\ saved' = <<[vs |-> vs, added |-> added]>>
    /\ ret' = [op |-> "save"]
    /\ UNCHANGED <<vs, added, chunkVars>>

Load ==
    LET r == load(disk) IN
    /\ vs' = IF r.raised = "none" THEN r.store[1] ELSE vs
    /\ added' = IF r.raised = "none" THEN saved[1].added ELSE added
    /\ ret' = [op |-> "load", raised |-> r.raised]
    /\ UNCHANGED <<disk, saved, chunkVars>>

Next == AddChunks \/ Search \/ Save \/ Load

Spec == Init /\ [][Next]_vars

---------------------------------------------------------------------------
(* The vector store over a directory that saves can leave half written and files can leave *)

StoreFiles == {"faiss_index", "chunks_metadata"}

\* a save that raises, or is killed, between faiss.write_index and the open of the metadata file
SaveFails ==
    /\ disk' = save_index_only(vs, disk)
    /\ ret' = [op |-> "save", raised |-> "OSError"]
    /\ UNCHANGED <<vs, added, saved, chunkVars>>

\* a file of the store directory is removed from outside
RemoveFile ==
    \E f \in StoreFiles :
        /\ disk[f] # <<>>
        /\ disk' = [disk EXCEPT ![f] = <<>>]
        /\ ret' = [op |-> "remove", file |-> f]
        /\ UNCHANGED <<vs, added, saved, chunkVars>>

NextDir == AddChunks \/ Save \/ SaveFails \/ RemoveFile \/ Load

SpecDir == Init /\ [][NextDir]_vars

---------------------------------------------------------------------------
(* The chunk builder applied to section bodies *)

\* a body of word runs ws[1], ws[2], ... (ws[i] tokens each) with seps[i] between runs i and i+1
RECURSIVE BodyFrom(_, _, _)
BodyFrom(ws, seps, i) ==
    IF i > Len(ws) THEN <<>>
    ELSE <<Word("w" \o ToString(i), ws[i])>>
         \o (IF i < Len(ws) THEN seps[i] ELSE <<>>) \o BodyFrom(ws, seps, i + 1)

Body(ws, seps) == BodyFrom(ws, seps, 1)

ParagraphBreak == Str(<<"\n", "\n">>)

\* what stands between two word runs: a sentence end, one followed by two spaces, a blank line
Separators == {Str(<<".", " ">>), Str(<<".", " ", " ">>), ParagraphBreak}

SmallChunker == SemanticChunker(3, 6, 1)

DefaultChunker == SemanticChunker(target_chunk_size, max_chunk_size, overlap_size)

\* bodies for the small chunker: runs under, at and over its sizes
SmallBodies ==
    UNION { { Body(ws, seps) : ws \in [1..m -> {1, 3, 7}], seps \in [1..(m - 1) -> Separators] } :
            m \in 1..MaxPieces }

\* bodies for the default chunker: three paragraphs of 1300 tokens in all, the last run taking
\* what the others leave
ScenarioBodies ==
    UNION { { Body(ws \o <<1300 + 1 - count_tokens(Body(ws \o <<1>>, seps))>>, seps) :
                ws   \in { w \in [1..(m - 1) -> {1, 600, 1100}] :
                            \A seps \in [1..(m - 1) -> {ParagraphBreak}] :
                                count_tokens(Body(w \o <<1>>, seps)) + m <= 1300 },
                seps \in { x \in [1..(m - 1) -> Separators] :
                            Cardinality({i \in 1..(m - 1) : x[i] = ParagraphBreak}) = 2 } } :
            m \in 3..MaxScenarioPieces }

SectionBodies(c) == IF c = DefaultChunker THEN ScenarioBodies ELSE SmallBodies

SectionTitle == <<Word("Lists", 1)>>

DocMetadata ==
    [source |-> "docs/tutorial/datastructures.txt", filename |-> "datastructures.txt",
     doc_type |-> "tutorial", relative_path |-> "tutorial/datastructures.txt"]

InitChunk ==
    /\ InitStore
    /\ chunker \in {SmallChunker, DefaultChunker}
    /\ arg \in SectionBodies(chunker)
    /\ result = <<>>
    /\ pc = "call"

ChunkSection ==
    /\ pc = "call"
    /\ result' = _chunk_section(chunker, arg, SectionTitle, DocMetadata)
    /\ pc' = "return"
    /\ UNCHANGED <<storeVars, chunker, arg>>

NextChunk == ChunkSection

SpecChunk == InitChunk /\ [][NextChunk]_vars

---------------------------------------------------------------------------
(* The section splitter applied to documents *)

\* the lines a document is made of: text, a blank line, underlines, a padded underline, a run
\* too short to be an underline
LinePool ==
    { <<Word("a", 1)>>, <<Word("b", 1)>>, <<>>, Str(<<"=", "=", "=">>),
      Str(<<" ", "-", "-", "-", " ">>), Str(<<"*", "*">>) }

Documents ==
    UNION { { join(Str(<<"\n">>), ls) : ls \in [1..m -> LinePool] } : m \in 1..MaxLines }

InitSplit ==
    /\ InitStore
    /\ chunker = DefaultChunker
    /\ arg \in Documents
    /\ result = <<>>
    /\ pc = "call"

\* lines = document.content.split('\n'); sections = self._split_into_sections(lines)
SplitIntoSections ==
    /\ pc = "call"
    /\ result' = _split_into_sections(chunker, split(arg, Str(<<"\n">>)))
    /\ pc' = "return"
    /\ UNCHANGED <<storeVars, chunker, arg>>

NextSplit == SplitIntoSections

SpecSplit == InitSplit /\ [][NextSplit]_vars

---------------------------------------------------------------------------
(* chunk_document applied to documents *)

\* the lines a document is made of: text, a blank line, an underline
DocLinePool == { <<Word("a", 1)>>, <<Word("b", 1)>>, <<>>, Str(<<"=", "=", "=">>) }

DocContents ==
    UNION { { join(Str(<<"\n">>), ls) : ls \in [1..m -> DocLinePool] } : m \in 1..MaxDocLines }

\* a chunker that one word fills
TinyChunker == SemanticChunker(1, 1, 1)

InitDoc ==
    /\ InitStore
    /\ chunker \in {TinyChunker, DefaultChunker}
    /\ arg \in DocContents
    /\ result = <<>>
    /\ pc = "call"

ChunkDocument ==
    /\ pc = "call"
    /\ result' = chunk_document(chunker, [content |-> arg, metadata |-> DocMetadata])
    /\ pc' = "return"
    /\ UNCHANGED <<storeVars, chunker, arg>>

NextDoc == ChunkDocument

SpecDoc == InitDoc /\ [][NextDoc]_vars

---------------------------------------------------------------------------
(* Claims about the vector store *)

Row32(row) == [j \in DOMAIN row |-> Float32(row[j])]

Injections(m, n) == { p \in [1..m -> 1..n] : \A i, j \in 1..m : i # j => p[i] # p[j] }

Min(a, b) == IF a < b THEN a ELSE b

\* C1: after any sequence of add_chunks calls, failed ones included, the index holds as many
\* vectors as the store holds chunks, and position i of both holds the chunk and the (float32)
\* embedding row that were handed over together in one call.
C1_LockStep ==
    /\ ntotal(vs.index) = Len(vs.chunks)
    /\ Len(added) = Len(vs.chunks)
    /\ \A i \in DOMAIN added :
          /\ vs.chunks[i] = added[i][1]
          /\ vs.index.xb[i] = Row32(added[i][2])

C1_Witness ==
    /\ ret.op = "add_chunks" /\ ret.raised # "none"
    /\ Len(vs.chunks) = MaxStore
    /\ \E i, j \in DOMAIN added : added[i] # added[j]

\* C2: an add_chunks call whose embedding row count differs from its chunk count raises the
\* error and leaves the store (vectors and chunks, counts and contents) as it was.
C2_MismatchRejected ==
    [][(ret'.op = "add_chunks" /\ ret'.mismatch) => (ret'.raised = "ValueError" /\ vs' = vs)]_vars

C2_Witness ==
    /\ ret.op = "add_chunks" /\ ret.mismatch /\ ret.raised = "ValueError"
    /\ Len(vs.chunks) > 0

\* the results are the stored entries p[1], p[2], ... with their distances to the float32 query
ResultsAre(p) ==
    \A r \in DOMAIN ret.results :
        ret.results[r] = [chunk    |-> vs.chunks[p[r]],
                          distance |-> L2Sqr(vs.index.xb[p[r]], Row32(ret.q))]

Ascending(results) ==
    \A r \in 1..(Len(results) - 1) : results[r].distance <= results[r + 1].distance

\* C3: a search with k above the number n of stored entries returns the n stored entries, each
\* once, by ascending distance; no "not found" entry and no failed lookup.
C3_SearchBeyondSize ==
    (ret.op = "search" /\ ret.k > ntotal(vs.index)) =>
        /\ ret.raised = "none"
        /\ Len(ret.results) = ntotal(vs.index)
        /\ \E p \in Injections(ntotal(vs.index), ntotal(vs.index)) : ResultsAre(p)
        /\ Ascending(ret.results)
        /\ \A r \in DOMAIN ret.results : ret.results[r].distance # FLT_MAX

C3_Witness ==
    /\ ret.op = "search" /\ ret.k > ntotal(vs.index)
    /\ Len(ret.results) = MaxStore
    /\ ret.results[1].distance < ret.results[MaxStore].distance

\* C4: a search with k >= 1 over n entries returns min(k, n) pairs by non-decreasing squared
\* distance, each chunk the one stored at its vector's position, and no entry left out is
\* strictly nearer than a returned one.
C4_ExactNearest ==
    ret.op = "search" =>
        LET n == ntotal(vs.index)
            m == Min(ret.k, n)
        IN  /\ ret.raised = "none"
            /\ Len(ret.results) = m
            /\ Ascending(ret.results)
            /\ \E p \in Injections(m, n) :
                  /\ ResultsAre(p)
                  /\ \A j \in 1..n : (\A r \in 1..m : p[r] # j) =>
                        \A r \in 1..m :
                            L2Sqr(vs.index.xb[j], Row32(ret.q)) >= ret.results[r].distance

C4_Witness ==
    /\ ret.op = "search" /\ ret.k = 2 /\ ntotal(vs.index) = MaxStore
    /\ ret.results[1].distance < ret.results[2].distance
    /\ vs.index.xb[1] # vs.index.xb[MaxStore]

\* C5: a load of a saved store yields the dimension, the chunks and the vectors of the store as
\* it was saved, in order, so every search answers as it did before the save.
C5_RoundTrip ==
    (ret.op = "load" /\ ret.raised = "none") =>
        /\ saved # <<>>
        /\ vs.embedding_dim = saved[1].vs.embedding_dim
        /\ vs.chunks = saved[1].vs.chunks
        /\ vs.index = saved[1].vs.index
        /\ \A q \in Queries, k \in 1..MaxK, tie \in TieOrders :
              search(vs, q, k, tie) = search(saved[1].vs, q, k, tie)

C5_Witness ==
    /\ ret.op = "load" /\ ret.raised = "none"
    /\ Len(vs.chunks) >= 2
    /\ vs.chunks[1] # vs.chunks[2]
    /\ vs.index.xb[1] # vs.index.xb[2]

IsPrefix(s, t) == Len(s) <= Len(t) /\ SubSeq(t, 1, Len(s)) = s

\* what a step appended to the history of accepted (chunk, embedding row) pairs
Accepted == SubSeq(added', Len(added) + 1, Len(added'))

\* C11: every add_chunks, search and save call leaves each stored chunk and each stored vector
\* at its position with its content; an add extends both sequences at the end by the batch it
\* was given, in the order given, and search and save change neither sequence.
C11_AppendOnly ==
    [][ret'.op \in {"add_chunks", "search", "save"} =>
          /\ IsPrefix(vs.chunks, vs'.chunks)
          /\ IsPrefix(vs.index.xb, vs'.index.xb)
          /\ vs'.chunks = vs.chunks \o [i \in DOMAIN Accepted |-> Accepted[i][1]]
          /\ vs'.index.xb = vs.index.xb \o [i \in DOMAIN Accepted |-> Row32(Accepted[i][2])]
          /\ (ret'.op # "add_chunks" => vs' = vs)]_vars

C11_Witness ==
    /\ ret.op = "add_chunks" /\ ret.raised = "none"
    /\ Len(vs.chunks) = MaxStore
    /\ vs.chunks[1] # vs.chunks[MaxStore]
    /\ vs.index.xb[1] # vs.index.xb[MaxStore]

\* C12: a load from a directory that lacks faiss_index.bin or chunks_metadata.json raises the
\* not-found error at once, returns no store, whole or partial, and leaves the store in use and
\* the directory as they were.
C12_LoadNotFound ==
    [][(ret'.op = "load" /\ \E f \in StoreFiles : disk[f] = <<>>) =>
          /\ ret'.raised = "FileNotFoundError"
          /\ load(disk).store = <<>>
          /\ vs' = vs
          /\ disk' = disk]_vars

C12_Witness ==
    /\ ret.op = "load" /\ ret.raised = "FileNotFoundError"
    /\ disk.faiss_index # <<>> /\ disk.chunks_metadata = <<>>
    /\ Len(vs.chunks) > 0

\* C18: every load that succeeds, also after a save that stopped between its two files, yields
\* a store with as many vectors as chunks, on which no search looks up a missing position.
C18_LoadedInLockStep ==
    (ret.op = "load" /\ ret.raised = "none") =>
        /\ ntotal(vs.index) = Len(vs.chunks)
        /\ \A q \in Queries, k \in 1..MaxK, tie \in TieOrders :
              search(vs, q, k, tie).raised = "none"

---------------------------------------------------------------------------
(* Claims about the chunk builder *)

TokenCountOf(chunk) == chunk.metadata.token_count

\* C6: every emitted chunk's token_count is the token count of the chunk's final text.
C6_TokenCountOfText ==
    pc = "return" =>
        \A i \in DOMAIN result : TokenCountOf(result[i]) = ToString(count_tokens(result[i].text))

\* C7: in an oversized section every emitted chunk has at most max_chunk_size tokens, unless
\* the chunk is one paragraph that alone exceeds max_chunk_size.
C7_WithinMax ==
    (pc = "return" /\ count_tokens(arg) > chunker.target_chunk_size) =>
        \A i \in DOMAIN result :
            \/ count_tokens(result[i].text) <= chunker.max_chunk_size
            \/ \E j \in DOMAIN Paragraphs(arg) : result[i].text = Paragraphs(arg)[j]

\* C8: a section of at most target_chunk_size tokens yields one chunk: the body unchanged,
\* chunk_index "0", token_count the body's token count.
C8_SingleChunk ==
    (pc = "return" /\ count_tokens(arg) <= chunker.target_chunk_size) =>
        /\ Len(result) = 1
        /\ result[1].text = arg
        /\ result[1].metadata.chunk_index = "0"
        /\ result[1].metadata.token_count = ToString(count_tokens(arg))

C8_Witness ==
    /\ pc = "return"
    /\ count_tokens(arg) = chunker.target_chunk_size
    /\ Len(Paragraphs(arg)) = 2

IsScenario ==
    /\ pc = "return"
    /\ chunker = DefaultChunker
    /\ Len(Paragraphs(arg)) = 3
    /\ count_tokens(arg) = 1300

\* C10 as claimed: with sizes 512/1024/128, every body of 3 paragraphs and 1300 tokens yields
\* exactly the chunks "0" and "1", the second beginning with the overlap of the first.
C10_TwoChunksAlways ==
    IsScenario =>
        /\ Len(result) = 2
        /\ result[1].metadata.chunk_index = "0"
        /\ result[2].metadata.chunk_index = "1"
        /\ StartsWith(result[2].text,
                      _get_overlap_text(chunker, result[1].text, chunker.overlap_size))

\* C10 as amended: the same, for the bodies whose first two paragraphs together have at most
\* max_chunk_size tokens; the second chunk begins with the overlap of the first less its
\* leading whitespace.
C10_TwoChunksWhenTwoFit ==
    (IsScenario /\ count_tokens(Paragraphs(arg)[1]) + count_tokens(Paragraphs(arg)[2])
                       <= chunker.max_chunk_size) =>
        /\ Len(result) = 2
        /\ result[1].metadata.chunk_index = "0"
        /\ result[2].metadata.chunk_index = "1"
        /\ StartsWith(result[2].text,
                      lstrip(_get_overlap_text(chunker, result[1].text, chunker.overlap_size)))

C10_Witness ==
    /\ IsScenario
    /\ count_tokens(Paragraphs(arg)[1]) + count_tokens(Paragraphs(arg)[2]) <= chunker.max_chunk_size
    /\ Len(result) = 2
    /\ _get_overlap_text(chunker, result[1].text, chunker.overlap_size) # <<>>
    /\ Head(_get_overlap_text(chunker, result[1].text, chunker.overlap_size)).ch = " "

\* C13: in an oversized section, the overlap text taken from a chunk closed on overflow has at
\* most overlap_size tokens. (The chunks before the last are the closed ones; a closed chunk's
\* text is the closed buffer less surrounding whitespace, which holds no ". ".)
C13_OverlapBounded ==
    (pc = "return" /\ count_tokens(arg) > chunker.target_chunk_size) =>
        \A i \in 1..(Len(result) - 1) :
            count_tokens(_get_overlap_text(chunker, result[i].text, chunker.overlap_size))
                <= chunker.overlap_size

\* the paragraph loop's variables after its first j paragraphs
LoopStateAfter(j) ==
    Loop(chunker, [chunks |-> <<>>, current_chunk_text |-> <<>>,
                   current_chunk_tokens |-> 0, chunk_index |-> 0],
         SubSeq(Paragraphs(arg), 1, j), SectionTitle, DocMetadata)

\* the last two ". "-delimited fragments of a text joined by ". ", or nothing for two or fewer
OverlapPrefix(text) ==
    LET fragments == split(text, Str(<<".", " ">>))
        n == Len(fragments)
    IN  IF n <= 2 THEN <<>> ELSE fragments[n - 1] \o Str(<<".", " ">>) \o fragments[n]

\* paragraph j of the section closes the chunk under way
ClosesAt(j) == Len(LoopStateAfter(j).chunks) = Len(LoopStateAfter(j - 1).chunks) + 1

OverlapPart(k) ==
    IF k = 1 THEN <<>>
    ELSE lstrip(OverlapPrefix(result[k - 1].text) \o Str(<<"\n", "\n">>))

\* chunks k, k+1, ... hold, after their overlap parts, the paragraphs j, j+1, ... of the
\* section: each chunk one or more of them, in order, none left out and none twice
RECURSIVE Covers(_, _)
Covers(k, j) ==
    IF k > Len(result) THEN j > Len(Paragraphs(arg))
    ELSE \E e \in j..Len(Paragraphs(arg)) :
            /\ result[k].text =
                  OverlapPart(k) \o join(Str(<<"\n", "\n">>), SubSeq(Paragraphs(arg), j, e))
            /\ Covers(k + 1, e + 1)

\* C21: in an oversized section every non-empty paragraph is the non-overlap content of exactly
\* one chunk, the paragraphs keep their order over the chunks, and the last buffer is flushed,
\* so that there is at least one chunk.
C21_ParagraphsKept ==
    (pc = "return" /\ count_tokens(arg) > chunker.target_chunk_size) =>
        /\ Len(result) >= 1
        /\ Covers(1, 1)

C21_Witness ==
    /\ pc = "return" /\ count_tokens(arg) > chunker.target_chunk_size
    /\ Len(result) >= 2
    /\ Len(Paragraphs(arg)) > Len(result)
    /\ \E k \in 2..Len(result) : OverlapPart(k) # <<>>
    /\ Covers(1, 1)

---------------------------------------------------------------------------
(* Claims about the section splitter *)

DocLines == split(arg, Str(<<"\n">>))

\* line i (from 1) is a header underline that starts a section
UnderlineAt(lines, i) == i > 1 /\ detect_section_header(lines[i]).is_header

\* line i is the title line of the header underline after it
TitleAt(lines, i) == i < Len(lines) /\ UnderlineAt(lines, i + 1)

\* lines i.. of a document without its header-title and header-underline lines
RECURSIVE ContentFrom(_, _)
ContentFrom(lines, i) ==
    IF i > Len(lines) THEN <<>>
    ELSE (IF UnderlineAt(lines, i) \/ TitleAt(lines, i) THEN <<>> ELSE <<lines[i]>>)
         \o ContentFrom(lines, i + 1)

\* the lines of the section bodies, in order
RECURSIVE BodyLines(_)
BodyLines(sections) ==
    IF sections = <<>> THEN <<>>
    ELSE split(Head(sections)[2], Str(<<"\n">>)) \o BodyLines(Tail(sections))

\* lines compared up to surrounding whitespace and blank lines, which the bodies' strip() removes
Trimmed(lines) == SelectSeq([i \in DOMAIN lines |-> strip(lines[i])], LAMBDA l : l # <<>>)

\* C9: the section bodies, in order, hold the document's lines in their order without the
\* header-underline lines and without the header-title lines.
C9_BodiesAreContent ==
    pc = "return" => Trimmed(BodyLines(result)) = Trimmed(ContentFrom(DocLines, 1))

\* C14: every section title the splitter returns is non-empty: a section whose title line is
\* blank or whitespace-only is titled "Introduction" instead.
C14_TitlesNonEmpty ==
    pc = "return" => \A k \in DOMAIN result : result[k][1] # <<>>

\* C15: every section the splitter returns has a body that is non-empty after trimming.
C15_BodiesNonEmpty ==
    pc = "return" => \A k \in DOMAIN result : strip(result[k][2]) # <<>>

IsUnderline(line) == detect_section_header(line).is_header

\* the lines (from 1) after which a section starts: 0, the start of the document, and the
\* header underlines that are not the first line
Starts(lines) == {0} \cup {i \in 2..Len(lines) : IsUnderline(lines[i])}

\* where the section started after line s ends: the next start, or past the last line
NextStart(lines, s) ==
    LET later == {t \in Starts(lines) : t > s} IN
    IF later = {} THEN Len(lines) + 1 ELSE CHOOSE t \in later : \A u \in later : t <= u

\* the sections started after line s and later: each the lines up to the next start, titled by
\* the trimmed line above its underline, the first one by "Introduction"; none for no lines
RECURSIVE SectionsFrom(_, _)
SectionsFrom(lines, s) ==
    LET e == NextStart(lines, s)
        body == SubSeq(lines, s + 1, e - 1)
        title == IF s = 0 THEN Introduction ELSE strip(lines[s - 1])
    IN  (IF body = <<>> THEN <<>> ELSE << <<title, strip(join(Str(<<"\n">>), body))>> >>)
        \o (IF e > Len(lines) THEN <<>> ELSE SectionsFrom(lines, e))

\* C16: a header underline on the first line starts no section and sets no title: it is the
\* first body line of the "Introduction" section. A header underline on any later line i starts
\* a section titled by the trimmed line i-1, and is in no section body.
C16_UnderlineAtZero ==
    pc = "return" =>
        /\ result = SectionsFrom(DocLines, 0)
        /\ IsUnderline(DocLines[1]) =>
              /\ result[1][1] = Introduction
              /\ Trimmed(split(result[1][2], Str(<<"\n">>)))[1] = strip(DocLines[1])
        /\ Len(SelectSeq(BodyLines(result), IsUnderline)) = IF IsUnderline(DocLines[1]) THEN 1 ELSE 0

C16_Witness ==
    /\ pc = "return"
    /\ IsUnderline(DocLines[1])
    /\ \E i \in 2..Len(DocLines) : IsUnderline(DocLines[i])
    /\ Len(result) >= 2
    /\ result[2][1] \notin {<<>>, Introduction}

\* C17: the lines before the first header (the first underline that is not the first line) are
\* the one first section, titled "Introduction"; a later section is titled "Introduction" only
\* if its title line reads so; a document without header is one "Introduction" section of all
\* its lines.
C17_IntroductionFirst ==
    pc = "return" =>
        LET H == Starts(DocLines) \ {0} IN
        IF H = {}
        THEN result = << <<Introduction, strip(join(Str(<<"\n">>), DocLines))>> >>
        ELSE /\ result[1] = <<Introduction,
                               strip(join(Str(<<"\n">>),
                                          SubSeq(DocLines, 1, NextStart(DocLines, 0) - 1)))>>
             /\ \A k \in 2..Len(result) :
                   result[k][1] = Introduction =>
                       \E i \in H : strip(DocLines[i - 1]) = Introduction

C17_Witness ==
    /\ pc = "return"
    /\ NextStart(DocLines, 0) = 3
    /\ NextStart(DocLines, 0) < Len(DocLines)
    /\ Len(result) = 2
    /\ result[1][2] # <<>>

---------------------------------------------------------------------------
(* Claims about chunk_document *)

DocSections == _split_into_sections(chunker, DocLines)

\* the chunks that open a section's run of chunks, and the run chunk i belongs to
Openers == {i \in DOMAIN result : result[i].metadata.chunk_index = "0"}

OpenerOf(i) == CHOOSE z \in Openers : z <= i /\ \A y \in Openers : y <= i => y <= z

RunOf(i) == Cardinality({z \in Openers : z <= i})

\* C20: the chunks of a document come in runs, one run per section in section order; within a
\* run chunk_index counts "0", "1", ... without gap or repeat, and every chunk carries its
\* section's title and every key and value of the document's metadata.
C20_IndexedInOrder ==
    pc = "return" =>
        /\ Cardinality(Openers) = Len(DocSections)
        /\ \A i \in DOMAIN result :
              /\ RunOf(i) >= 1
              /\ result[i].metadata.chunk_index = ToString(i - OpenerOf(i))
              /\ result[i].metadata.section_title = DocSections[RunOf(i)][1]
              /\ \A key \in DOMAIN DocMetadata : result[i].metadata[key] = DocMetadata[key]
              /\ i \in Openers =>
                    LET paragraphs == Paragraphs(DocSections[RunOf(i)][2]) IN
                    IF paragraphs = <<>> THEN result[i].text = <<>>
                    ELSE StartsWith(result[i].text, paragraphs[1])

C20_Witness ==
    /\ pc = "return"
    /\ \E i, j \in DOMAIN result :
          /\ i < j
          /\ result[i].metadata.chunk_index = "1"
          /\ result[j].metadata.chunk_index = "0"
          /\ result[i].metadata.section_title # result[j].metadata.section_title
          /\ result[i].text # result[j].text

=============================================================================
